---- MODULE Spec2Model ----
(***************************************************************************)
(* Asset-readiness gates and hot reload of fishfight/beatemup              *)
(* (src/src/loading.rs).  One frame of the Bevy main schedule is the       *)
(* sequence of phases                                                      *)
(*   LoadAssets -> StateTransition -> Update (-> UpdateItems) ->           *)
(*   ApplyUpdate -> AssetEvents -> Last (-> LastLevel -> LastFighters) ->  *)
(*   ApplyLast                                                             *)
(* where UpdateItems, LastLevel and LastFighters are the positions of the  *)
(* second and third system of a schedule while in game.                    *)
(* Systems queue their Commands; the queue is applied at the end of the    *)
(* schedule the system runs in.  Assets<GameMeta> buffers the change       *)
(* notifications it raises and hands them to the event readers in the      *)
(* AssetEvents schedule, between Update and Last.                          *)
(***************************************************************************)
EXTENDS Integers, Sequences, FiniteSets, TLC

\* ---------------------------------------------------------------- bounds
\* number of external (on-disk) modifications of the definition files
MaxExt == 2

\* ------------------------------------------------------------- constants
None == <<>>
Some(v) == <<v>>

\* Two Game definitions the asset store may decode from disk.
GameDefs ==
    { [camera_height |-> 448, default_locale |-> "en", detected_locale |-> "en",
       font_families |-> {"ark"}],
      [camera_height |-> 600, default_locale |-> "en", detected_locale |-> "fr",
       font_families |-> {"ark", "bold"}] }

\* Leaf handles the Game definition depends on.
GameDependencies == {"font.ttf", "border.png"}

\* Two Level definitions: 1 player, 2 enemies (1 boss), 1 item; and 2 players.
LevelDefs ==
    { [players |-> <<"f1">>,
       enemies |-> << [fighter |-> "f2", boss |-> TRUE],
                      [fighter |-> "f2", boss |-> FALSE] >>,
       items |-> <<"i1">>, background_color |-> "blue",
       parallax_background |-> "beach"],
      [players |-> <<"f1", "f1">>, enemies |-> << >>,
       items |-> << >>, background_color |-> "red",
       parallax_background |-> "city"] }

\* The Fighter definition decoded from version v of the file of fighter f.
FighterMeta(f, v) ==
    [name |-> << f, v >>,
     atlas_handle |-> IF v = 1 THEN {"atlas_a"} ELSE {"atlas_a", "atlas_b"},
     animations |-> v, stats |-> 10 * v]

\* Leaf handles a Fighter definition depends on.
FighterDependencies(f) ==
    IF f = "f1" THEN {"atlas1.png", "atlas2.png"} ELSE {}

VARIABLES
    hot_reload,      \* ENGINE_CONFIG.hot_reload
    phase,           \* position in the frame
    state,           \* State<GameState>
    next_state,      \* NextState<GameState>
    game_asset,      \* Assets<GameMeta>[game_handle]: None or Some([def, egui])
    level_asset,     \* Assets<LevelMeta>[level_handle]
    fighter_assets,  \* Assets<FighterMeta>: the version decoded of each Fighter
    level_events,    \* Events<AssetEvent<LevelMeta>> unread by hot_reload_level
    fighter_events,  \* Events<AssetEvent<FighterMeta>> unread by hot_reload_fighters
    loaded,          \* resolved dependency handles
    asset_events,    \* Assets<GameMeta>.events, not yet flushed
    events,          \* Events<AssetEvent<GameMeta>> unread by hot_reload_game
    skip_next_asset_update_event,  \* hot_reload_game's Local<bool>
    commands,        \* Commands queued in the running schedule
    entities,        \* live entities
    next_entity,     \* next entity id to reserve
    resources,       \* inserted resources
    egui_ctx_fonts,  \* font families registered in the egui context
    parallax,        \* CreateParallaxEvent sent last
    fault,           \* "none", or the panic that ended the process
    ext_count,       \* history: external modifications made
    hist,            \* history: totals
    tick,            \* history: what hot_reload_game did in its last run
    prev_tick,       \* history: what it did in the run before
    idle_ticks,      \* history: frames ended since the last modification or
                     \* gate firing, counted up to 2
    order            \* history: the systems of LoadingPlugin run in this frame

vars == << hot_reload, phase, state, next_state, game_asset, level_asset,
           fighter_assets, level_events, fighter_events, loaded,
           asset_events, events, skip_next_asset_update_event, commands, entities,
           next_entity, resources, egui_ctx_fonts, parallax, fault, ext_count,
           hist, tick, prev_tick, idle_ticks, order >>

history == << hist, tick, prev_tick, idle_ticks, order >>

NoTick == [ran |-> FALSE, reapply |-> 0, flagset |-> 0, swallowed |-> << >>,
           real |-> << >>, drained |-> << >>]

\* ------------------------------------------------------ progress (4.1)
LoadProgress(l, t) == [loaded |-> l, total |-> t]

RECURSIVE merged(_)
merged(ps) ==
    IF ps = << >> THEN LoadProgress(0, 0)
    ELSE LET r == merged(Tail(ps))
         IN  LoadProgress(Head(ps).loaded + r.loaded, Head(ps).total + r.total)

SetToSeq(S) ==
    CHOOSE s \in [1..Cardinality(S) -> S] : \A x \in S : \E i \in DOMAIN s : s[i] = x

\* percent in 0..100
as_percent(p) ==
    IF p.total = 0 THEN 100
    ELSE LET q == (p.loaded * 100) \div p.total
         IN  IF q > 100 THEN 100 ELSE q

handle_progress(h, res) ==
    IF h \in res THEN LoadProgress(1, 1) ELSE LoadProgress(0, 1)

fighter_progress(f, res) ==
    IF f \in res
    THEN merged([i \in 1..Cardinality(FighterDependencies(f)) |->
                    handle_progress(SetToSeq(FighterDependencies(f))[i], res)])
    ELSE LoadProgress(0, 1)

game_load_progress(res) ==
    merged([i \in 1..Cardinality(GameDependencies) |->
               handle_progress(SetToSeq(GameDependencies)[i], res)])

level_load_progress(level, res) ==
    merged( [i \in DOMAIN level.players |-> fighter_progress(level.players[i], res)]
            \o [i \in DOMAIN level.enemies |->
                   fighter_progress(level.enemies[i].fighter, res)]
            \o [i \in DOMAIN level.items |-> handle_progress(level.items[i], res)] )

\* ------------------------------------------------------------- helpers
Cameras(ents) == {e \in ents : e.kind = "Camera"}

\* Query::get_single: Some(the entity) iff exactly one matches
get_single(S) == IF Cardinality(S) = 1 THEN Some(CHOOSE e \in S : TRUE) ELSE None

Spawn(id, kind, handle, boss, data) ==
    [op |-> "spawn", id |-> id, name |-> kind,
     val |-> [id |-> id, kind |-> kind, handle |-> handle, boss |-> boss,
              data |-> data, comp |-> None]]
Insert(id, component) == [op |-> "insert", id |-> id, name |-> component, val |-> None]
InsertBundle(id, bundle, v) == [op |-> "insert", id |-> id, name |-> bundle, val |-> v]
Despawn(id) == [op |-> "despawn", id |-> id, name |-> "", val |-> None]
InsertResource(name, v) == [op |-> "insert_resource", id |-> 0, name |-> name, val |-> v]

RECURSIVE ApplyEntities(_, _)
ApplyEntities(cmds, ents) ==
    IF cmds = << >> THEN ents
    ELSE LET c == Head(cmds)
         IN  ApplyEntities(Tail(cmds),
                 IF c.op = "spawn" THEN ents \cup {c.val}
                 ELSE IF c.op = "despawn" THEN {e \in ents : e.id # c.id}
                 ELSE IF c.op = "insert" /\ c.name = "Boss"
                 THEN {IF e.id = c.id THEN [e EXCEPT !.boss = TRUE] ELSE e : e \in ents}
                 ELSE IF c.op = "insert"
                 THEN {IF e.id = c.id THEN [e EXCEPT !.comp = Some(c.val)] ELSE e :
                          e \in ents}
                 ELSE ents)

RECURSIVE ApplyResources(_, _)
ApplyResources(cmds, res) ==
    IF cmds = << >> THEN res
    ELSE LET c == Head(cmds)
         IN  ApplyResources(Tail(cmds),
                 IF c.op = "insert_resource"
                 THEN [res EXCEPT ![c.name] = Some(c.val)]
                 ELSE res)

\* the ids of a set, in increasing order
SortedIds(S) ==
    CHOOSE s \in [1..Cardinality(S) -> S] :
        \A i, j \in 1..Cardinality(S) : i < j => s[i] < s[j]

\* number of entries of a sequence equal to x
Count(seq, x) == Cardinality({i \in DOMAIN seq : seq[i] = x})

AssetEvent(kind, author) == [kind |-> kind, author |-> author]

\* ---------------------------------------------------------------- Init
Init ==
    /\ hot_reload \in BOOLEAN
    /\ phase = "LoadAssets"
    /\ state = "LoadingGame"
    /\ next_state = None
    /\ game_asset = None
    /\ level_asset = None
    /\ fighter_assets = [f \in {"f1", "f2"} |-> 1]
    /\ level_events = << >>
    /\ fighter_events = << >>
    /\ loaded = {}
    /\ asset_events = << >>
    /\ events = << >>
    /\ skip_next_asset_update_event = FALSE
    /\ commands = << >>
    /\ entities = {}
    /\ next_entity = 1
    /\ resources = [GameMeta |-> None, Locale |-> None, EguiFontDefinitions |-> None,
                    ClearColor |-> None, LevelMeta |-> None, LevelHandle |-> None]
    /\ egui_ctx_fonts = None
    /\ parallax = None
    /\ fault = "none"
    /\ ext_count = 0
    /\ hist = [fired |-> 0, cameras_spawned |-> 0, reapplies |-> 0,
               level_fired |-> 0, real_ext |-> 0, real_reapply |-> 0,
               ext_other |-> 0, level_poll |-> None, pauses |-> 0, resets |-> 0]
    /\ tick = NoTick
    /\ prev_tick = NoTick
    /\ idle_ticks = 0
    /\ order = << >>

Running == fault = "none"

\* ------------------------------------------- asset store (LoadAssets)
Fighters == {"f1", "f2"}

LevelHandles(level) ==
    {level.players[i] : i \in DOMAIN level.players}
    \cup {level.enemies[i].fighter : i \in DOMAIN level.enemies}
    \cup {level.items[i] : i \in DOMAIN level.items}

\* handles the asset server has been asked to load
Requested ==
    (IF game_asset # None THEN GameDependencies ELSE {})
    \cup (IF level_asset # None THEN LevelHandles(level_asset[1]) ELSE {})
    \cup UNION {FighterDependencies(f) : f \in loaded \cap Fighters}

\* derived, non-serialized fields are empty in a freshly decoded definition
Decoded(d) == [def |-> d, egui_texture |-> FALSE]

\* Assets::set of a Game definition not yet in the store: Created
asset_created_game ==
    /\ Running /\ phase = "LoadAssets"
    /\ game_asset = None
    /\ \E d \in GameDefs : game_asset' = Some(Decoded(d))
    /\ asset_events' = Append(asset_events, AssetEvent("Created", "ext"))
    /\ idle_ticks' = 0
    /\ UNCHANGED << hot_reload, fighter_assets, level_events, fighter_events, phase,
                    state, next_state, level_asset, loaded, events,
                    skip_next_asset_update_event, commands, entities, next_entity,
                    resources, egui_ctx_fonts, parallax, fault, ext_count, hist, tick,
                    prev_tick, order >>

\* MaxExt bounds the external inputs together: the edits of the definition
\* files and the times the player pauses the game; the level and fighter
\* files are edited while the level runs, where the systems that read their
\* notifications are scheduled
ExtBudget == ext_count + hist.ext_other + hist.pauses < MaxExt

\* Assets::set of a changed Game definition already in the store: Modified
asset_modified_game ==
    /\ Running /\ phase = "LoadAssets"
    /\ hot_reload
    /\ game_asset # None
    /\ ExtBudget
    /\ \E d \in GameDefs : game_asset' = Some(Decoded(d))
    /\ asset_events' = Append(asset_events, AssetEvent("Modified", "ext"))
    /\ ext_count' = ext_count + 1
    /\ idle_ticks' = 0
    /\ UNCHANGED << hot_reload, fighter_assets, level_events, fighter_events, phase,
                    state, next_state, level_asset, loaded, events,
                    skip_next_asset_update_event, commands, entities, next_entity,
                    resources, egui_ctx_fonts, parallax, fault, hist, tick, prev_tick,
                    order >>

asset_loaded_level ==
    /\ Running /\ phase = "LoadAssets"
    /\ resources.LevelHandle # None
    /\ level_asset = None
    /\ \E l \in LevelDefs : level_asset' = Some(l)
    /\ UNCHANGED << hot_reload, fighter_assets, level_events, fighter_events, phase,
                    state, next_state, game_asset, loaded,
                    asset_events, events, skip_next_asset_update_event, commands,
                    entities, next_entity, resources, egui_ctx_fonts, parallax, fault,
                    ext_count, history >>

\* the level file changes on disk and is decoded again: Modified
asset_modified_level ==
    /\ Running /\ phase = "LoadAssets"
    /\ hot_reload
    /\ level_asset # None
    /\ state = "InGame"
    /\ ExtBudget
    /\ \E l \in LevelDefs \ {level_asset[1]} : level_asset' = Some(l)
    /\ level_events' = Append(level_events, -1)
    /\ hist' = [hist EXCEPT !.ext_other = @ + 1]
    /\ UNCHANGED << hot_reload, fighter_assets, fighter_events, phase, state,
                    next_state, game_asset, loaded, asset_events, events,
                    skip_next_asset_update_event, commands, entities, next_entity,
                    resources, egui_ctx_fonts, parallax, fault, ext_count, tick,
                    prev_tick, idle_ticks, order >>

\* a fighter file changes on disk and is decoded again: Modified
asset_modified_fighter ==
    /\ Running /\ phase = "LoadAssets"
    /\ hot_reload
    /\ state = "InGame"
    /\ ExtBudget
    /\ \E f \in loaded \cap Fighters :
          /\ fighter_assets' = [fighter_assets EXCEPT ![f] = 3 - @]
          /\ fighter_events' = Append(fighter_events, [handle |-> f, age |-> -1])
    /\ hist' = [hist EXCEPT !.ext_other = @ + 1]
    /\ UNCHANGED << hot_reload, level_events, phase, state, next_state, game_asset,
                    level_asset, loaded, asset_events, events,
                    skip_next_asset_update_event, commands, entities, next_entity,
                    resources, egui_ctx_fonts, parallax, fault, ext_count, tick,
                    prev_tick, idle_ticks, order >>

\* the player pauses the running game: the state the pause menu is shown in
\* is requested
pause_requested ==
    /\ Running /\ phase = "LoadAssets"
    /\ state = "InGame" /\ next_state = None
    /\ ExtBudget
    /\ next_state' = Some("Paused")
    /\ hist' = [hist EXCEPT !.pauses = @ + 1]
    /\ UNCHANGED << hot_reload, fighter_assets, level_events, fighter_events, phase,
                    state, game_asset, level_asset, loaded, asset_events, events,
                    skip_next_asset_update_event, commands, entities, next_entity,
                    resources, egui_ctx_fonts, parallax, fault, ext_count, tick,
                    prev_tick, idle_ticks, order >>

asset_loaded_dependency ==
    /\ Running /\ phase = "LoadAssets"
    /\ \E h \in Requested \ loaded : loaded' = loaded \cup {h}
    /\ UNCHANGED << hot_reload, fighter_assets, level_events, fighter_events, phase,
                    state, next_state, game_asset, level_asset,
                    asset_events, events, skip_next_asset_update_event, commands,
                    entities, next_entity, resources, egui_ctx_fonts, parallax, fault,
                    ext_count, history >>

\* ------------------------------------------------------ frame schedule
Step(from, to) == phase = from /\ phase' = to

\* Events::update of the double-buffered queues: an event sent in one frame
\* can be read until the end of the next frame (age 0, then 1); -1 is an
\* event still buffered in Assets
AgeLevelEvents(evs) ==
    LET keep == SelectSeq(evs, LAMBDA a : a # 1)
    IN  [i \in DOMAIN keep |-> IF keep[i] = 0 THEN 1 ELSE keep[i]]

AgeFighterEvents(evs) ==
    LET keep == SelectSeq(evs, LAMBDA e : e.age # 1)
    IN  [i \in DOMAIN keep |-> IF keep[i].age = 0 THEN [keep[i] EXCEPT !.age = 1]
                                ELSE keep[i]]

begin_frame ==
    /\ Running /\ Step("LoadAssets", "StateTransition")
    /\ level_events' = AgeLevelEvents(level_events)
    /\ fighter_events' = AgeFighterEvents(fighter_events)
    /\ UNCHANGED << hot_reload, fighter_assets, state, next_state, game_asset,
                    level_asset, loaded,
                    asset_events, events, skip_next_asset_update_event, commands,
                    entities, next_entity, resources, egui_ctx_fonts, parallax, fault,
                    ext_count, history >>

\* apply_state_transition: takes the queued NextState, if any
apply_state_transition ==
    /\ Running /\ Step("StateTransition", "Update")
    /\ state' = IF next_state # None THEN next_state[1] ELSE state
    /\ next_state' = None
    /\ UNCHANGED << hot_reload, fighter_assets, level_events, fighter_events,
                    game_asset, level_asset, loaded, asset_events, events,
                    skip_next_asset_update_event, commands, entities, next_entity,
                    resources, egui_ctx_fonts, parallax, fault, ext_count, history >>

\* the queued Commands are applied, in order, when the schedule ends
apply_deferred(from, to) ==
    /\ Running /\ Step(from, to)
    /\ entities' = ApplyEntities(commands, entities)
    /\ resources' = ApplyResources(commands, resources)
    /\ commands' = << >>
    /\ UNCHANGED << hot_reload, fighter_assets, level_events, fighter_events, state,
                    next_state, game_asset, level_asset, loaded,
                    asset_events, events, skip_next_asset_update_event, next_entity,
                    egui_ctx_fonts, parallax, fault, ext_count, hist, tick, prev_tick >>

apply_deferred_update ==
    /\ apply_deferred("ApplyUpdate", "AssetEvents")
    /\ UNCHANGED << idle_ticks, order >>

\* the frame ends here
apply_deferred_last ==
    /\ apply_deferred("ApplyLast", "LoadAssets")
    /\ idle_ticks' = IF idle_ticks < 2 THEN idle_ticks + 1 ELSE idle_ticks
    /\ order' = << >>

\* Assets::asset_event_system: the buffered notifications reach the readers
asset_event_system ==
    /\ Running /\ Step("AssetEvents", "Last")
    /\ events' = IF hot_reload THEN events \o asset_events ELSE << >>
    /\ asset_events' = << >>
    /\ level_events' = [i \in DOMAIN level_events |->
                           IF level_events[i] = -1 THEN 0 ELSE level_events[i]]
    /\ fighter_events' = [i \in DOMAIN fighter_events |->
                             IF fighter_events[i].age = -1
                             THEN [fighter_events[i] EXCEPT !.age = 0]
                             ELSE fighter_events[i]]
    /\ UNCHANGED << hot_reload, fighter_assets, state, next_state, game_asset,
                    level_asset, loaded,
                    skip_next_asset_update_event, commands, entities, next_entity,
                    resources, egui_ctx_fonts, parallax, fault, ext_count, history >>

\* ------------------------------------------------------- LoadingPlugin
\* mutant: the hot reload systems are added to Update
schedule_of_all_update(system) == "Update"

\* LoadingPlugin::build: the schedule each system is added to
schedule_of(system) ==
    IF system \in {"hot_reload_game", "hot_reload_level", "hot_reload_fighters"}
    THEN "Last"
    ELSE "Update"

\* ------------------------------------------------------- Readiness Gate
\* mutant: an unresolved Game handle counts as loaded
game_assets_loaded_else_true ==
    IF game_asset # None
    THEN as_percent(game_load_progress(loaded)) >= 100
    ELSE TRUE

\* game_assets_loaded: the Game handle resolves and its progress is 100%
game_assets_loaded ==
    IF game_asset # None
    THEN as_percent(game_load_progress(loaded)) >= 100
    ELSE FALSE

\* mutant: load_game without its in_state(LoadingGame) run condition
load_game_run_if_any_state == game_assets_loaded

\* run conditions of load_game
load_game_run_if == state = "LoadingGame" /\ game_assets_loaded

\* ----------------------------------------------------- Reload Debouncer
\* mutant: every notification is taken for a modification
is_modified_any(event) == event.kind \in {"Created", "Modified", "Removed"}

\* `if let AssetEvent::Modified { .. } = event`
is_modified(event) == event.kind = "Modified"

\* mutant: the flag stays set once it has discounted a notification
RECURSIVE iter_with_id_sticky(_, _)
iter_with_id_sticky(evs, acc) ==
    IF evs = << >> THEN acc
    ELSE LET event == Head(evs)
         IN  iter_with_id_sticky(Tail(evs),
                 IF is_modified(event)
                 THEN IF acc.skip
                      THEN [acc EXCEPT !.swallowed = Append(@, event.author)]
                      ELSE [acc EXCEPT !.has_update = TRUE,
                                       !.real = Append(@, event.author)]
                 ELSE acc)

\* the loop of should_skip_run over the unread events; swallowed and real
\* record the authors of the notifications discounted and counted
RECURSIVE iter_with_id(_, _)
iter_with_id(evs, acc) ==
    IF evs = << >> THEN acc
    ELSE LET event == Head(evs)
         IN  iter_with_id(Tail(evs),
                 IF is_modified(event)
                 THEN IF acc.skip
                      THEN [acc EXCEPT !.skip = FALSE,
                                       !.swallowed = Append(@, event.author)]
                      ELSE [acc EXCEPT !.has_update = TRUE,
                                       !.real = Append(@, event.author)]
                 ELSE acc)

\* mutant: a hot reload run is never skipped
should_skip_run_never(is_hot_reload, evs, skip) ==
    LET start == [skip |-> skip, has_update |-> FALSE, swallowed |-> << >>,
                  real |-> << >>]
        r == IF is_hot_reload THEN iter_with_id(evs, start) ELSE start
    IN  [ret |-> FALSE, skip |-> r.skip, swallowed |-> r.swallowed, real |-> r.real]

\* mutant: a run that starts with the flag set is skipped whatever it drains
should_skip_run_flag_wins(is_hot_reload, evs, skip) ==
    LET start == [skip |-> skip, has_update |-> FALSE, swallowed |-> << >>,
                  real |-> << >>]
        r == IF is_hot_reload THEN iter_with_id(evs, start) ELSE start
    IN  [ret |-> is_hot_reload /\ (skip \/ ~r.has_update), skip |-> r.skip,
         swallowed |-> r.swallowed, real |-> r.real]

\* should_skip_run: the value returned and the flag it leaves
should_skip_run(is_hot_reload, evs, skip) ==
    LET start == [skip |-> skip, has_update |-> FALSE, swallowed |-> << >>,
                  real |-> << >>]
        r == IF is_hot_reload THEN iter_with_id(evs, start) ELSE start
    IN  [ret |-> is_hot_reload /\ ~r.has_update, skip |-> r.skip,
         swallowed |-> r.swallowed, real |-> r.real]

\* mutant: the hot reload preparation leaves the flag as it was
hot_reload_skip_flag_unset(old) == old

\* `*skip_next_asset_update_event = true` of the hot reload preparation
hot_reload_skip_flag(old) == TRUE

\* the Camera the hot reload preparation despawns
hot_reload_despawn(ents) ==
    LET camera == get_single(Cameras(ents))
    IN  IF camera # None THEN << Despawn(camera[1].id) >> ELSE << >>

\* Locale::new(detected_locale).with_default(default_locale)
LocaleOf(game) ==
    [requested |-> game.def.detected_locale, default |-> game.def.default_locale]

\* mutant: the hot reload pass requests the main menu too
requests_main_menu_always(is_hot_reload) == TRUE

\* `next_state.set(GameState::MainMenu)` is in the one-time initialization
requests_main_menu(is_hot_reload) == ~is_hot_reload

\* GameLoader::load.  The skip flag and the event reader are those of the
\* system that calls it; load_game (is_hot_reload = FALSE) reads and writes
\* neither.
load(is_hot_reload) ==
    LET r == should_skip_run(is_hot_reload, events, skip_next_asset_update_event)
        skipped == r.ret
        found == game_asset # None
        game == game_asset[1]
        ran == ~skipped /\ found
    IN  /\ events' = IF is_hot_reload THEN << >> ELSE events
        /\ skip_next_asset_update_event' =
               IF ran /\ is_hot_reload THEN hot_reload_skip_flag(r.skip) ELSE r.skip
        \* assets.get_mut raises Modified whether or not the asset is found
        /\ asset_events' =
               IF skipped THEN asset_events
               ELSE Append(asset_events,
                        AssetEvent("Modified",
                                   IF is_hot_reload THEN "reapply" ELSE "init"))
        /\ egui_ctx_fonts' =
               IF ran /\ ~is_hot_reload THEN Some(game.def.font_families)
               ELSE egui_ctx_fonts
        /\ next_state' =
               IF ran /\ requests_main_menu(is_hot_reload) THEN Some("MainMenu")
               ELSE next_state
        /\ commands' =
               IF ~ran THEN commands
               ELSE commands
                    \o (IF is_hot_reload THEN hot_reload_despawn(entities)
                        ELSE << InsertResource("EguiFontDefinitions",
                                               game.def.font_families) >>)
                    \o << InsertResource("Locale", LocaleOf(game)),
                          Spawn(next_entity, "Camera", "none", FALSE,
                                game.def.camera_height),
                          InsertResource("GameMeta",
                                         [game EXCEPT !.egui_texture = TRUE]) >>
        /\ next_entity' = IF ran THEN next_entity + 1 ELSE next_entity
        \* load_border_image writes the registered textures into the asset
        /\ game_asset' =
               IF ran THEN Some([game EXCEPT !.egui_texture = TRUE]) ELSE game_asset
        /\ hist' =
               [hist EXCEPT
                   !.cameras_spawned = IF ran THEN @ + 1 ELSE @,
                   !.fired = IF ran /\ ~is_hot_reload THEN @ + 1 ELSE @,
                   !.reapplies = IF ran /\ is_hot_reload THEN @ + 1 ELSE @,
                   !.real_ext = @ + Count(r.real, "ext"),
                   !.real_reapply = @ + Count(r.real, "reapply")]
        /\ tick' =
               IF is_hot_reload
               THEN [ran |-> TRUE, reapply |-> IF ran THEN 1 ELSE 0,
                     flagset |-> IF ran THEN 1 ELSE 0,
                     swallowed |-> r.swallowed, real |-> r.real,
                     drained |-> [i \in DOMAIN events |-> events[i].kind]]
               ELSE tick
        /\ prev_tick' = IF is_hot_reload THEN tick ELSE prev_tick
        /\ idle_ticks' = IF ran /\ ~is_hot_reload THEN 0 ELSE idle_ticks
        /\ order' = Append(order, IF is_hot_reload THEN "hot_reload_game"
                                  ELSE "load_game")

\* System to run the initial game load (Update, in LoadingGame, once loaded)
load_game ==
    /\ Running /\ Step(schedule_of("load_game"), "ApplyUpdate")
    /\ load_game_run_if
    /\ load(FALSE)
    /\ UNCHANGED << hot_reload, fighter_assets, level_events, fighter_events, state,
                    level_asset, loaded, entities, resources,
                    parallax, fault, ext_count >>

\* System to check for asset changes and hot reload the game (Last, any state)
hot_reload_game ==
    /\ Running
    /\ Step(schedule_of("hot_reload_game"),
            IF state = "InGame" THEN "LastLevel" ELSE "ApplyLast")
    /\ hot_reload
    /\ load(TRUE)
    /\ UNCHANGED << hot_reload, fighter_assets, level_events, fighter_events, state,
                    level_asset, loaded, entities, resources,
                    parallax, fault, ext_count >>

\* hot reload is not configured: nothing is scheduled in Last
last_without_hot_reload ==
    /\ Running /\ Step("Last", "ApplyLast")
    /\ ~hot_reload
    /\ UNCHANGED << hot_reload, fighter_assets, level_events, fighter_events, state,
                    next_state, game_asset, level_asset, loaded,
                    asset_events, events, skip_next_asset_update_event, commands,
                    entities, next_entity, resources, egui_ctx_fonts, parallax, fault,
                    ext_count, history >>

\* --------------------------------------------------------- level gate
\* mutant: the level gate does not wait for the progress
level_assets_loaded_unchecked(level) == TRUE

\* `if load_progress.as_percent() < 1.0 { return; }`
level_assets_loaded(level) == as_percent(level_load_progress(level, loaded)) >= 100

\* mutant: load_level keeps running once in game
load_level_run_if_in_game == state \in {"LoadingLevel", "InGame"}

\* load_level runs in LoadingLevel
load_level_run_if == state = "LoadingLevel"

spawn_players(players, first) ==
    [i \in DOMAIN players |-> Spawn(first + i - 1, "Player", players[i], FALSE, i - 1)]

\* an enemy gets the Boss marker when its declaration is boss-flagged
spawn_enemy(id, enemy) ==
    << Spawn(id, "Enemy", enemy.fighter, FALSE, 0) >>
    \o (IF enemy.boss THEN << Insert(id, "Boss") >> ELSE << >>)

RECURSIVE spawn_enemies(_, _)
spawn_enemies(enemies, first) ==
    IF enemies = << >> THEN << >>
    ELSE spawn_enemy(first, Head(enemies)) \o spawn_enemies(Tail(enemies), first + 1)

spawn_items(items, first) ==
    [i \in DOMAIN items |-> Spawn(first + i - 1, "Item", items[i], FALSE, 0)]

\* Loads a level and transitions to InGame
load_level ==
    /\ Running /\ Step(schedule_of("load_level"), "ApplyUpdate")
    /\ load_level_run_if
    /\ IF resources.LevelHandle = None \/ resources.GameMeta = None
       THEN \* a Res<_> parameter that does not exist panics
            /\ fault' = "missing resource"
            /\ UNCHANGED << commands, next_entity, next_state, parallax, hist >>
       ELSE IF level_asset = None
       THEN \* "Awaiting level load"
            UNCHANGED << commands, next_entity, next_state, parallax, fault, hist >>
       ELSE IF ~level_assets_loaded(level_asset[1])
       THEN /\ hist' = [hist EXCEPT !.level_poll =
                            Some(level_load_progress(level_asset[1], loaded))]
            /\ UNCHANGED << commands, next_entity, next_state, parallax, fault >>
       ELSE IF get_single(Cameras(entities)) = None
       THEN \* camera_query.get_single().unwrap()
            /\ fault' = "camera_query.get_single().unwrap()"
            /\ UNCHANGED << commands, next_entity, next_state, parallax, hist >>
       ELSE LET level == level_asset[1]
                camera == get_single(Cameras(entities))[1]
                np == Len(level.players)
                ne == Len(level.enemies)
                ni == Len(level.items)
            IN  /\ parallax' = Some([layers_data |-> level.parallax_background,
                                     camera |-> camera.id])
                /\ commands' =
                       commands
                       \o << InsertResource("ClearColor", level.background_color) >>
                       \o spawn_players(level.players, next_entity)
                       \o spawn_enemies(level.enemies, next_entity + np)
                       \o spawn_items(level.items, next_entity + np + ne)
                       \o << InsertResource("LevelMeta", level) >>
                /\ next_entity' = next_entity + np + ne + ni
                /\ next_state' = Some("InGame")
                /\ hist' = [hist EXCEPT
                               !.level_fired = @ + 1,
                               !.level_poll = Some(level_load_progress(level, loaded))]
                /\ fault' = fault
    /\ UNCHANGED << hot_reload, fighter_assets, level_events, fighter_events, state,
                    game_asset, level_asset, loaded, asset_events,
                    events, skip_next_asset_update_event, entities, resources,
                    egui_ctx_fonts, ext_count, tick, prev_tick, idle_ticks >>
    /\ order' = Append(order, "load_level")

\* MainMenu -> LoadingLevel: the menu selection inserts the LevelHandle and
\* requests the transition; or the menu stays open
main_menu ==
    /\ Running /\ Step("Update", "ApplyUpdate")
    /\ state = "MainMenu"
    /\ \E start \in BOOLEAN :
          IF start
          THEN /\ commands' = Append(commands, InsertResource("LevelHandle", "level"))
               /\ next_state' = Some("LoadingLevel")
          ELSE UNCHANGED << commands, next_state >>
    /\ UNCHANGED << hot_reload, fighter_assets, level_events, fighter_events, state,
                    game_asset, level_asset, loaded, asset_events,
                    events, skip_next_asset_update_event, entities, next_entity,
                    resources, egui_ctx_fonts, parallax, fault, ext_count, history >>

\* ----------------------------------------------------------- pause menu
\* ResetController::reset_world: every entity but the Camera is despawned
reset_world(ents) ==
    LET ids == SortedIds({e.id : e \in ents \ Cameras(ents)})
    IN  [i \in DOMAIN ids |-> Despawn(ids[i])]

\* pause_menu: `continue` requests InGame; `main-menu` resets the world and
\* requests MainMenu; or no button is clicked
pause_menu ==
    /\ Running /\ Step("Update", "ApplyUpdate")
    /\ state = "Paused"
    /\ \E clicked \in {"none", "continue", "main-menu"} :
          IF clicked = "continue"
          THEN /\ next_state' = Some("InGame")
               /\ UNCHANGED << commands, hist >>
          ELSE IF clicked = "main-menu"
          THEN /\ commands' = commands \o reset_world(entities)
               /\ next_state' = Some("MainMenu")
               /\ hist' = [hist EXCEPT !.resets = @ + 1]
          ELSE UNCHANGED << commands, next_state, hist >>
    /\ UNCHANGED << hot_reload, fighter_assets, level_events, fighter_events, state,
                    game_asset, level_asset, loaded, asset_events, events,
                    skip_next_asset_update_event, entities, next_entity, resources,
                    egui_ctx_fonts, parallax, fault, ext_count, tick, prev_tick,
                    idle_ticks, order >>

\* ---------------------------------------------------- Stub Materializer
IsFighter(e) == e.kind \in {"Player", "Enemy"}

\* mutant: the query of load_fighters without its Without<Stats> filter
fighters_with_or_without_stats(ents) == {e \in ents : IsFighter(e)}

\* Query<(Entity, &Transform, &Handle<FighterMeta>, ..), Without<Stats>>
fighters_without_stats(ents) == {e \in ents : IsFighter(e) /\ e.comp = None}

AtlasHandles == {"atlas_a", "atlas_b"}

\* the components a materialized fighter carries
FighterComponents(fighter, atlas) ==
    [name |-> fighter.name, atlas_handle |-> atlas,
     animation |-> fighter.animations, stats |-> fighter.stats]

\* ActiveFighterBundle::activate_fighter_stub: the bundle is inserted on the
\* stub; the atlas is one of the alternatives the definition declares
activate_fighter_stub(fighter, entity, atlas) ==
    InsertBundle(entity, "ActiveFighterBundle", FighterComponents(fighter, atlas))

\* Load all fighters that have their handles spawned (Update, InGame)
load_fighters ==
    /\ Running /\ Step(schedule_of("load_fighters"), "UpdateItems")
    /\ state = "InGame"
    /\ LET ready == {e \in fighters_without_stats(entities) : e.handle \in loaded}
           ids == SortedIds({e.id : e \in ready})
           of(id) == CHOOSE e \in ready : e.id = id
       IN  \E atlas \in [{e.id : e \in ready} -> AtlasHandles] :
              /\ \A e \in ready :
                     atlas[e.id] \in
                         FighterMeta(e.handle, fighter_assets[e.handle]).atlas_handle
              /\ commands' =
                     commands
                     \o [i \in DOMAIN ids |->
                            activate_fighter_stub(
                                FighterMeta(of(ids[i]).handle,
                                            fighter_assets[of(ids[i]).handle]),
                                ids[i], atlas[ids[i]])]
    /\ UNCHANGED << hot_reload, fighter_assets, level_events, fighter_events, state,
                    next_state, game_asset, level_asset, loaded, asset_events, events,
                    skip_next_asset_update_event, entities, next_entity, resources,
                    egui_ctx_fonts, parallax, fault, ext_count, hist, tick,
                    prev_tick, idle_ticks >>
    /\ order' = Append(order, "load_fighters")

\* Query<(Entity, &Transform, &Handle<ItemMeta>, Option<&Item>), Without<Sprite>>
items_without_sprite(ents) == {e \in ents : e.kind = "Item" /\ e.comp = None}

\* load_items: an item whose definition resolves gets its sprite (Update, InGame)
load_items ==
    /\ Running /\ Step("UpdateItems", "ApplyUpdate")
    /\ schedule_of("load_items") = "Update"
    /\ LET ready == {e \in items_without_sprite(entities) : e.handle \in loaded}
           ids == SortedIds({e.id : e \in ready})
           of(id) == CHOOSE e \in ready : e.id = id
       IN  commands' =
               commands
               \o [i \in DOMAIN ids |->
                      InsertBundle(ids[i], "SpriteBundle",
                                   [texture |-> of(ids[i]).handle])]
    /\ UNCHANGED << hot_reload, fighter_assets, level_events, fighter_events, state,
                    next_state, game_asset, level_asset, loaded, asset_events, events,
                    skip_next_asset_update_event, entities, next_entity, resources,
                    egui_ctx_fonts, parallax, fault, ext_count, hist, tick,
                    prev_tick, idle_ticks >>
    /\ order' = Append(order, "load_items")

\* ------------------------------------------- hot reload of level, fighters
\* the events an EventReader yields: those flushed and not yet dropped
Readable(ages) == SelectSeq(ages, LAMBDA a : a >= 0)

\* mutant: the level re-apply spawns the declared players again
RECURSIVE reload_level_commands_respawn(_, _)
reload_level_commands_respawn(evs, level) ==
    IF evs = << >> THEN << >>
    ELSE << InsertResource("ClearColor", level.background_color) >>
         \o spawn_players(level.players, next_entity)
         \o reload_level_commands_respawn(Tail(evs), level)

\* the commands hot_reload_level queues: one ClearColor per Modified event
RECURSIVE reload_level_commands(_, _)
reload_level_commands(evs, level) ==
    IF evs = << >> THEN << >>
    ELSE << InsertResource("ClearColor", level.background_color) >>
         \o reload_level_commands(Tail(evs), level)

\* Hot reloads level asset data (Last, InGame)
hot_reload_level ==
    /\ Running /\ Step("LastLevel", "LastFighters")
    /\ schedule_of("hot_reload_level") = "Last"
    /\ level_events' = SelectSeq(level_events, LAMBDA a : a < 0)
    /\ IF Readable(level_events) = << >>
       THEN UNCHANGED << commands, parallax, fault >>
       ELSE IF resources.LevelHandle = None \/ level_asset = None
       THEN \* Res<LevelHandle>, assets.get(handle).unwrap()
            /\ fault' = "missing resource"
            /\ UNCHANGED << commands, parallax >>
       ELSE IF get_single(Cameras(entities)) = None
       THEN \* camera_query.get_single().unwrap()
            /\ fault' = "camera_query.get_single().unwrap()"
            /\ UNCHANGED << commands, parallax >>
       ELSE LET level == level_asset[1]
                camera == get_single(Cameras(entities))[1]
            IN  /\ parallax' = Some([layers_data |-> level.parallax_background,
                                     camera |-> camera.id])
                /\ commands' =
                       commands \o reload_level_commands(Readable(level_events), level)
                /\ fault' = fault
    /\ UNCHANGED << hot_reload, fighter_assets, fighter_events, state, next_state,
                    game_asset, level_asset, loaded, asset_events, events,
                    skip_next_asset_update_event, entities, next_entity, resources,
                    egui_ctx_fonts, ext_count, hist, tick,
                    prev_tick, idle_ticks >>
    /\ order' = Append(order, "hot_reload_level")

\* the handles of the Modified events hot_reload_fighters reads
ModifiedFighters(evs) == {evs[i].handle : i \in {j \in DOMAIN evs : evs[j].age >= 0}}

\* Query<(&Handle<FighterMeta>, &mut Name, &mut Handle<TextureAtlas>,
\*        &mut Animation, &mut Stats)>
fighters_with_stats(ents) == {e \in ents : IsFighter(e) /\ e.comp # None}

\* mutant: the stat block is not overwritten
reload_fighter_keeps_stats(e, fighter, atlas) ==
    [e EXCEPT !.comp =
        Some([FighterComponents(fighter, atlas) EXCEPT !.stats = e.comp[1].stats])]

\* the body of the loop: name, atlas, animation and stats are overwritten
reload_fighter(e, fighter, atlas) ==
    [e EXCEPT !.comp = Some(FighterComponents(fighter, atlas))]

\* Hot reload fighter data when fighter assets are updated (Last, InGame)
hot_reload_fighters ==
    /\ Running /\ Step("LastFighters", "ApplyLast")
    /\ schedule_of("hot_reload_fighters") = "Last"
    /\ fighter_events' = SelectSeq(fighter_events, LAMBDA e : e.age < 0)
    /\ LET hit == {e \in fighters_with_stats(entities) :
                      e.handle \in ModifiedFighters(fighter_events)}
       IN  \E atlas \in [{e.id : e \in hit} -> AtlasHandles] :
              /\ \A e \in hit :
                     atlas[e.id] \in
                         FighterMeta(e.handle, fighter_assets[e.handle]).atlas_handle
              /\ entities' =
                     {IF e \in hit
                      THEN reload_fighter(
                               e, FighterMeta(e.handle, fighter_assets[e.handle]),
                               atlas[e.id])
                      ELSE e : e \in entities}
    /\ UNCHANGED << hot_reload, fighter_assets, level_events, state, next_state,
                    game_asset, level_asset, loaded, asset_events, events,
                    skip_next_asset_update_event, commands, next_entity, resources,
                    egui_ctx_fonts, parallax, fault, ext_count, hist, tick,
                    prev_tick, idle_ticks >>
    /\ order' = Append(order, "hot_reload_fighters")

\* no system of this module has a run condition that holds in Update
update_idle ==
    /\ Running /\ Step("Update", "ApplyUpdate")
    /\ ~load_game_run_if
    /\ ~load_level_run_if
    /\ state \notin {"MainMenu", "InGame", "Paused"}
    /\ UNCHANGED << hot_reload, fighter_assets, level_events, fighter_events, state,
                    next_state, game_asset, level_asset, loaded,
                    asset_events, events, skip_next_asset_update_event, commands,
                    entities, next_entity, resources, egui_ctx_fonts, parallax, fault,
                    ext_count, history >>

\* ------------------------------------------------------- specification
Next ==
    \/ asset_created_game
    \/ asset_modified_game
    \/ asset_loaded_level
    \/ asset_loaded_dependency
    \/ asset_modified_level
    \/ asset_modified_fighter
    \/ pause_requested
    \/ begin_frame
    \/ apply_state_transition
    \/ load_game
    \/ load_level
    \/ main_menu
    \/ pause_menu
    \/ load_fighters
    \/ load_items
    \/ hot_reload_level
    \/ hot_reload_fighters
    \/ update_idle
    \/ apply_deferred_update
    \/ asset_event_system
    \/ hot_reload_game
    \/ last_without_hot_reload
    \/ apply_deferred_last

Spec == Init /\ [][Next]_vars

\* ------------------------------------------------------------- claims
GameResolved == game_asset # None
GamePercent == as_percent(game_load_progress(loaded))
UpdateStep == phase = "Update" /\ phase' # phase
GateFires == hist'.fired = hist.fired + 1

\* C1: the LoadingGame -> MainMenu gate runs load_game's one-time
\* initialization (Camera spawn, GameMeta install, MainMenu request) exactly
\* once: in the first Update in LoadingGame where the Game handle resolves
\* and its progress is 100%, and never in a later tick.
C1_GateFiresExactlyOnce ==
    [][ /\ GateFires =>
              /\ hist.fired = 0
              /\ UpdateStep /\ state = "LoadingGame"
              /\ GameResolved /\ GamePercent >= 100
              /\ next_state' = Some("MainMenu")
              /\ \E i \in DOMAIN commands' : commands'[i].op = "spawn"
                                             /\ commands'[i].name = "Camera"
              /\ \E i \in DOMAIN commands' : commands'[i].op = "insert_resource"
                                             /\ commands'[i].name = "GameMeta"
        /\ (UpdateStep /\ state = "LoadingGame" /\ GameResolved /\ GamePercent >= 100)
              => GateFires
        /\ hist'.fired <= 1
      ]_vars

\* a later tick, after the gate fired, with the progress still at 100%
C1_Witness ==
    /\ hist.fired = 1 /\ state = "MainMenu" /\ phase = "ApplyUpdate"
    /\ GameResolved /\ GamePercent >= 100

\* C2: at most one live Camera entity exists in every reachable state.
C2_AtMostOneCamera == Cardinality(Cameras(entities)) <= 1

SelfAuthored(e) == e.kind = "Modified" /\ e.author \in {"init", "reapply"}
PendingEvents == events \o asset_events
SelfPending == \E i \in DOMAIN PendingEvents : SelfAuthored(PendingEvents[i])

\* C3: the skip flag is true exactly while a Modified notification raised by
\* the loader's own write to the Game definition (initial load or hot reload)
\* is pending and not yet drained.
C3_SkipFlagExact == skip_next_asset_update_event <=> SelfPending

ExtPending ==
    \E i \in DOMAIN PendingEvents :
        PendingEvents[i].kind = "Modified" /\ PendingEvents[i].author = "ext"

\* C4: an external Modified notification is counted as a real change once,
\* and the Modified notification raised by its re-apply is never counted: once
\* the external notifications are drained, the number counted equals the
\* number made, and no re-apply notification was ever counted.
C4_SelfCausedNeverCounted ==
    /\ hist.real_reapply = 0
    /\ Count(tick.real, "reapply") = 0
    /\ hist.real_ext <= ext_count
    /\ ~ExtPending => hist.real_ext = ext_count

\* one external modification, re-applied, and its own notification swallowed
C4_Witness ==
    /\ ext_count = 1 /\ hist.real_ext = 1
    /\ prev_tick.real = << "ext" >> /\ prev_tick.reapply = 1
    /\ tick.swallowed = << "reapply" >> /\ tick.reapply = 0

\* C5: when two or more external Modified notifications are drained as real
\* changes in one tick, one re-apply pass runs in that tick, the flag is set
\* once, and one notification is swallowed in the next tick.
C5_EditsCoalesce ==
    /\ Count(tick.real, "ext") >= 2 => tick.reapply = 1 /\ tick.flagset = 1
    /\ Count(prev_tick.real, "ext") >= 2 =>
           tick.ran /\ Len(tick.swallowed) = 1

C5_Witness ==
    /\ Count(prev_tick.real, "ext") >= 2
    /\ prev_tick.reapply = 1
    /\ tick.swallowed = << "reapply" >>

CommandsApplied == commands = << >>

\* C7: with everything resolved and no external modification, the initial
\* load spawns exactly one Camera in total, sets the Locale from the
\* definition and requests MainMenu.
C7_InitialLoadOneCamera ==
    (ext_count = 0 /\ hist.fired = 1 /\ CommandsApplied) =>
        /\ hist.cameras_spawned = 1
        /\ resources.Locale = Some(LocaleOf(game_asset[1]))
        /\ (next_state = Some("MainMenu") \/ state # "LoadingGame")

Quiescent == ~skip_next_asset_update_event /\ PendingEvents = << >>

\* C6: hot reload never loops on its own notifications: the re-apply passes
\* are bounded by the external modifications made plus the initial load, and
\* two frames after the last external modification or gate firing the
\* process is at rest: the flag is clear, no notification is pending and the
\* last hot reload run re-applied nothing.
C6_NoSelfNotificationLoop ==
    /\ hist.reapplies <= ext_count + hist.fired
    /\ idle_ticks = 2 => (Quiescent /\ tick.reapply = 0)

\* at rest after every external modification was re-applied
C6_Witness ==
    /\ ext_count = MaxExt /\ hist.reapplies >= MaxExt
    /\ Quiescent /\ fault = "none" /\ phase = "LoadAssets" /\ idle_ticks = 2

LevelResolved == level_asset # None
LevelPercent == as_percent(level_load_progress(level_asset[1], loaded))
AllResolved(level) ==
    /\ LevelHandles(level) \subseteq loaded
    /\ \A f \in LevelHandles(level) \cap Fighters : FighterDependencies(f) \subseteq loaded

\* C8: LoadingLevel requests InGame only in an Update where the Level
\* handle resolves, everything reachable from the level is resolved (progress
\* 100%), the GameMeta resource is installed and a Camera exists; an Update
\* in LoadingLevel with progress below 100% queues no command and requests no
\* transition.
C8_LevelGate ==
    [][ /\ (state = "LoadingLevel" /\ next_state' = Some("InGame")
                /\ next_state # Some("InGame")) =>
              /\ UpdateStep
              /\ LevelResolved /\ LevelPercent >= 100
              /\ AllResolved(level_asset[1])
              /\ resources.GameMeta # None
              /\ Cameras(entities) # {}
        /\ (UpdateStep /\ state = "LoadingLevel" /\ LevelResolved
                /\ LevelPercent < 100) =>
              UNCHANGED << commands, entities, next_state, next_entity >>
      ]_vars

\* the gate fired with a fighter that has a dependency of its own
C8_Witness ==
    /\ next_state = Some("InGame") /\ state = "LoadingLevel"
    /\ "atlas1.png" \in loaded /\ hist.level_fired = 1

Kind(k) == {e \in entities : e.kind = k}
Declared(seq, x) == Cardinality({i \in DOMAIN seq : seq[i] = x})

\* the gate fired, or the pause menu reset the world, and the commands are
\* still queued
GateFiredNotApplied ==
    phase = "ApplyUpdate" /\ state = "LoadingLevel" /\ next_state = Some("InGame")
ResetNotApplied ==
    phase = "ApplyUpdate" /\ state = "Paused" /\ next_state = Some("MainMenu")
\* no level is loaded: none was, or the world was reset since
NoLevelLoaded ==
    \/ resources.LevelMeta = None
    \/ hist.level_fired = hist.resets /\ ~ResetNotApplied
    \/ hist.level_fired = hist.resets + 1 /\ GateFiredNotApplied

\* C9: the level gate fires once per level load (once at first, and once
\* more after each reset of the world).  Once it has fired and its commands
\* are applied, there is one player stub per declared player (with its index
\* and fighter), one enemy stub per declared enemy, a Boss marker exactly on
\* the boss-flagged ones, and one item per declared item; later polls add
\* none.  Before the gate fires there is none of them.
C9_LevelSpawnsOnce ==
    /\ hist.level_fired \in {hist.resets, hist.resets + 1}
    /\ IF NoLevelLoaded
       THEN Kind("Player") \cup Kind("Enemy") \cup Kind("Item") = {}
       ELSE LET level == resources.LevelMeta[1]
            IN  /\ Cardinality(Kind("Player")) = Len(level.players)
                /\ \A i \in DOMAIN level.players :
                       \E e \in Kind("Player") :
                           e.data = i - 1 /\ e.handle = level.players[i]
                /\ Cardinality(Kind("Enemy")) = Len(level.enemies)
                /\ \A f \in Fighters : \A b \in BOOLEAN :
                       Cardinality({e \in Kind("Enemy") : e.handle = f /\ e.boss = b})
                           = Declared(level.enemies, [fighter |-> f, boss |-> b])
                /\ Cardinality(Kind("Item")) = Len(level.items)
                /\ \A h \in {"i1"} :
                       Cardinality({e \in Kind("Item") : e.handle = h})
                           = Declared(level.items, h)

\* in game, polled again, with a boss and a plain enemy spawned
C9_Witness ==
    /\ state = "InGame" /\ phase = "ApplyUpdate"
    /\ resources.LevelMeta # None
    /\ \E e \in Kind("Enemy") : e.boss
    /\ \E e \in Kind("Enemy") : ~e.boss
    /\ Kind("Item") # {}

RootUnresolved ==
    \/ state = "LoadingGame" /\ ~GameResolved
    \/ state = "LoadingLevel" /\ ~LevelResolved

\* C10: an Update whose gate's root handle is unresolved changes nothing
\* (no command, entity, resource, notification, transition request or fault)
\* and leaves the state as it is, so the gate is polled again next tick.
C10_UnresolvedRootIsNoOp ==
    [][ (UpdateStep /\ RootUnresolved) =>
            /\ UNCHANGED << commands, entities, resources, next_entity, asset_events,
                            events, skip_next_asset_update_event, egui_ctx_fonts,
                            parallax, state, fault, game_asset, level_asset >>
            /\ next_state' = None
            /\ fault' = "none"
      ]_vars

\* the level gate was polled while the Level handle did not resolve
C10_Witness ==
    /\ phase = "ApplyUpdate" /\ state = "LoadingLevel" /\ ~LevelResolved
    /\ next_state = None

\* the steps that use or replace the Camera
LevelGateReady ==
    /\ phase = "Update" /\ load_level_run_if
    /\ resources.LevelHandle # None /\ resources.GameMeta # None
    /\ LevelResolved /\ level_assets_loaded(level_asset[1])
LevelReapplies ==
    /\ phase = "LastLevel" /\ Readable(level_events) # << >>
    /\ resources.LevelHandle # None /\ LevelResolved
GameReapplies == hist'.reapplies = hist.reapplies + 1

\* C11: a step that needs the Camera (the level gate firing, a Level re-apply,
\* a Game re-apply) and finds none ends in a fatal fault; it is never
\* skipped silently.
C11_MissingCameraIsFatal ==
    [][ (Cameras(entities) = {}
            /\ (LevelGateReady \/ LevelReapplies \/ GameReapplies)) =>
            fault' # "none"
      ]_vars

Stub(e) == IsFighter(e) /\ e.comp = None
Materialized(e) == IsFighter(e) /\ e.comp # None
IsActivation(c) == c.op = "insert" /\ c.name = "ActiveFighterBundle"

C13_FighterReloadOverwrites ==
    [][ (phase = "LastFighters" /\ phase' # phase) =>
            /\ Cardinality(entities') = Cardinality(entities)
            /\ \A e \in entities :
                  IF Materialized(e) /\ e.handle \in ModifiedFighters(fighter_events)
                  THEN LET fighter == FighterMeta(e.handle, fighter_assets[e.handle])
                       IN  \E d \in entities' :
                              /\ [d EXCEPT !.comp = e.comp] = e
                              /\ d.comp[1].name = fighter.name
                              /\ d.comp[1].atlas_handle \in fighter.atlas_handle
                              /\ d.comp[1].animation = fighter.animations
                              /\ d.comp[1].stats = fighter.stats
                  ELSE e \in entities'
      ]_vars

\* a fighter was overwritten from version 2 of its definition while a
\* fighter with another handle still carries version 1
C13_Witness ==
    /\ state = "InGame" /\ phase = "ApplyLast"
    /\ \E e, d \in entities :
          /\ Materialized(e) /\ Materialized(d) /\ e.handle # d.handle
          /\ e.comp[1].name = << e.handle, 2 >> /\ e.comp[1].stats = 20
          /\ d.comp[1].name = << d.handle, 1 >>

\* C14: a Level re-apply sends the parallax event for the Level now in the
\* store with the existing Camera and queues only ClearColor inserts: no
\* entity is spawned, despawned or changed, no entity id is reserved, also
\* when the lists of players, enemies and items changed.
C14_LevelReloadVisualOnly ==
    [][ (LevelReapplies /\ phase' # phase) =>
            /\ UNCHANGED << entities, next_entity, resources, state, next_state >>
            /\ ApplyEntities(commands', entities) = ApplyEntities(commands, entities)
            /\ fault' = "none" =>
                  /\ Cardinality(Cameras(entities)) = 1
                  /\ parallax' =
                         Some([layers_data |-> level_asset[1].parallax_background,
                               camera |-> (CHOOSE e \in Cameras(entities) : TRUE).id])
                  /\ ApplyResources(commands', resources).ClearColor
                         = Some(level_asset[1].background_color)
                  /\ \A i \in DOMAIN commands' :
                         i > Len(commands) =>
                             commands'[i] = InsertResource("ClearColor",
                                                level_asset[1].background_color)
      ]_vars

\* the level was re-applied with another number of players than were spawned
C14_Witness ==
    /\ state = "InGame" /\ phase = "ApplyLast" /\ fault = "none"
    /\ resources.LevelMeta # None /\ parallax # None /\ level_asset # None
    /\ parallax[1].layers_data = level_asset[1].parallax_background
    /\ parallax[1].layers_data # resources.LevelMeta[1].parallax_background
    /\ Cardinality(Kind("Player")) # Len(level_asset[1].players)
    /\ resources.ClearColor = Some(level_asset[1].background_color)

\* C15: whenever a Game definition is installed (after the initial load and
\* after every re-apply), every font family it declares has a placeholder
\* registered in the egui context.
C15_DeclaredFontsRegistered ==
    resources.GameMeta # None =>
        /\ egui_ctx_fonts # None
        /\ resources.GameMeta[1].def.font_families \subseteq egui_ctx_fonts[1]

\* the progress load_level computes when it polls the Level
LevelPolled ==
    /\ phase = "Update" /\ phase' # phase /\ load_level_run_if
    /\ resources.LevelHandle # None /\ resources.GameMeta # None
    /\ LevelResolved

\* C16: while handles only go from unresolved to resolved, the progress the
\* gates poll has loaded <= total, a total of 0 is 100%, and the percentage
\* never decreases from one poll to the next, also when resolving a fighter
\* reveals its own dependencies.
C16_ProgressNeverDecreases ==
    [][ /\ (game_asset # None /\ game_asset' # None) =>
              /\ game_load_progress(loaded).loaded <= game_load_progress(loaded).total
              /\ as_percent(game_load_progress(loaded'))
                     >= as_percent(game_load_progress(loaded))
        /\ LevelPolled =>
              LET now == level_load_progress(level_asset[1], loaded)
              IN  /\ now.loaded <= now.total
                  /\ now.total = 0 => as_percent(now) = 100
                  /\ hist.level_poll # None =>
                         as_percent(now) >= as_percent(hist.level_poll[1])
      ]_vars

\* hot_reload_game drains the Game notifications
Drains == phase = "Last" /\ phase' # phase /\ hot_reload

Gates == {"load_game", "load_level"}
Materializers == {"load_fighters", "load_items"}
Reloaders == {"hot_reload_game", "hot_reload_level", "hot_reload_fighters"}
Ran(system) == \E i \in DOMAIN order : order[i] = system

\* C18 as claimed: in every frame, every hot reload system runs after every
\* gate that runs and before every stub materializer that runs.
C18_ReloadBeforeMaterializers ==
    \A i, j \in DOMAIN order :
        /\ (order[i] \in Reloaders /\ order[j] \in Gates) => j < i
        /\ (order[i] \in Reloaders /\ order[j] \in Materializers) => i < j

\* C18, amended: in every frame each system runs at most once and every hot
\* reload system runs after every gate and after every stub materializer
\* that runs; when the hot reload systems have run, the gate of the state
\* (the Game gate once its assets are loaded, the level gate) and both
\* materializers (in game) have run before them.
C18_ReloadAfterMaterializers ==
    /\ \A i, j \in DOMAIN order :
          /\ order[i] = order[j] => i = j
          /\ (order[i] \in Reloaders /\ order[j] \in Gates \cup Materializers) =>
                j < i
    /\ (phase = "ApplyLast" /\ hot_reload /\ fault = "none") =>
          /\ Ran("hot_reload_game")
          /\ (state = "LoadingGame" /\ game_assets_loaded) => Ran("load_game")
          /\ state = "LoadingLevel" => Ran("load_level")
          /\ state = "InGame" =>
                /\ Ran("load_fighters") /\ Ran("load_items")
                /\ Ran("hot_reload_level") /\ Ran("hot_reload_fighters")

\* an in-game frame in which the materializers and the three hot reload
\* systems ran and the Game definition was re-applied
C18_Witness ==
    /\ phase = "ApplyLast" /\ state = "InGame" /\ tick.reapply = 1
    /\ Ran("load_fighters") /\ Ran("hot_reload_fighters")

IsCameraSpawn(c) == c.op = "spawn" /\ c.name = "Camera"

ReapplyStep ==
    \/ GameReapplies
    \/ LevelReapplies /\ phase' # phase
    \/ phase = "LastFighters" /\ phase' # phase
          /\ ModifiedFighters(fighter_events) # {}
Requests == next_state' # None /\ next_state' # next_state

\* C20 as claimed: a re-apply pass leaves the state and the pending request
\* as they are, and a transition is requested only by a gate that fires or
\* by an action of the pause menu.
C20_OnlyGatesAndPauseMenuRequest ==
    [][ /\ ReapplyStep => UNCHANGED << state, next_state >>
        /\ Requests =>
              \/ GateFires /\ next_state' = Some("MainMenu")
              \/ hist'.level_fired = hist.level_fired + 1
                    /\ next_state' = Some("InGame")
              \/ UpdateStep /\ state = "Paused"
                    /\ next_state' \in {Some("InGame"), Some("MainMenu")}
      ]_vars

\* C20, amended: a re-apply pass leaves the state and the pending request as
\* they are, and a transition is requested only by a gate that fires, by an
\* action of the pause menu, by the level selection of the main menu or by
\* the player pausing the game.
C20_ReapplyRequestsNoTransition ==
    [][ /\ ReapplyStep => UNCHANGED << state, next_state >>
        /\ phase \in {"Last", "LastLevel", "LastFighters", "ApplyLast"} =>
              UNCHANGED << state, next_state >>
        /\ Requests =>
              \/ GateFires /\ next_state' = Some("MainMenu")
              \/ hist'.level_fired = hist.level_fired + 1
                    /\ next_state' = Some("InGame")
              \/ UpdateStep /\ state = "Paused"
                    /\ next_state' \in {Some("InGame"), Some("MainMenu")}
              \/ UpdateStep /\ state = "MainMenu"
                    /\ next_state' = Some("LoadingLevel")
              \/ phase = "LoadAssets" /\ state = "InGame"
                    /\ next_state' = Some("Paused")
      ]_vars

\* in game again after a pause, the Game was re-applied in this frame and no
\* transition is requested
C20_Witness ==
    /\ state = "InGame" /\ phase = "ApplyLast" /\ next_state = None
    /\ tick.reapply = 1 /\ hist.pauses = 1
    /\ Kind("Player") # {}

\* an external Modified notification is among those hot_reload_game drains
ExtDrained ==
    \E i \in DOMAIN events : is_modified(events[i]) /\ events[i].author = "ext"

\* a self-caused Modified notification is among them
SelfDrained ==
    \E i \in DOMAIN events : SelfAuthored(events[i])

\* the orders in which the notifications of a batch can be iterated
Orderings(batch) ==
    LET n == Len(batch)
        perms == {f \in [1..n -> 1..n] : \A i, j \in 1..n : f[i] = f[j] => i = j}
    IN  {[i \in 1..n |-> batch[f[i]]] : f \in perms}

\* C21: in every run of hot_reload_game that drains at least one external
\* Modified notification, the Game is re-applied in that same run and the
\* flag is set again, whether or not the flag was set when the run started;
\* the decision is the same in whatever order the drained notifications,
\* self-caused ones included, are iterated.
C21_ExternalNeverLost ==
    [][ Drains =>
          /\ ExtDrained =>
                /\ GameReapplies
                /\ tick'.reapply = 1
                /\ skip_next_asset_update_event'
          /\ \A batch \in Orderings(events) :
                should_skip_run(TRUE, batch, skip_next_asset_update_event).ret
                    = should_skip_run(TRUE, events,
                                      skip_next_asset_update_event).ret
      ]_vars

\* the run started with the flag set by the re-apply of the run before,
\* drained that re-apply's notification together with an external one, and
\* re-applied
C21_Witness ==
    /\ phase \in {"ApplyLast", "LastLevel"}
    /\ prev_tick.reapply = 1 /\ prev_tick.flagset = 1
    /\ Len(tick.swallowed) = 1
    /\ Count(tick.real, "ext") >= 1
    /\ tick.reapply = 1
    /\ skip_next_asset_update_event

\* the Readiness Gate of the Game has not fired yet
BeforeGameGate == state = "LoadingGame" /\ hist.fired = 0

\* C22: while the state is LoadingGame and load_game has not fired, no Camera
\* exists or is queued to spawn, no GameMeta resource is installed or queued,
\* and no hot reload re-apply pass has run: the first Camera and the first
\* install are those of the gate's firing step.
C22_NothingBeforeGateFires ==
    BeforeGameGate =>
        /\ Cameras(entities) = {}
        /\ resources.GameMeta = None
        /\ hist.cameras_spawned = 0
        /\ hist.reapplies = 0
        /\ \A i \in DOMAIN commands :
               /\ ~IsCameraSpawn(commands[i])
               /\ ~(commands[i].op = "insert_resource"
                      /\ commands[i].name = "GameMeta")

\* no Modified notification is among those hot_reload_game drains
NoModifiedDrained == \A i \in DOMAIN events : events[i].kind # "Modified"

\* the batch with one more notification of kind k put in before position i
WithExtra(batch, i, k) ==
    SubSeq(batch, 1, i - 1) \o << AssetEvent(k, "ext") >>
        \o SubSeq(batch, i, Len(batch))

\* C23: a run of hot_reload_game that drains no Modified notification,
\* whatever else it drains, re-applies nothing: it queues no command, leaves
\* the Cameras, the Locale and GameMeta resources, the stored Game
\* definition and the skip flag as they were and raises no notification.
\* Created and Removed notifications are neither counted nor discounted:
\* one more of them anywhere in the drained batch changes neither the
\* decision to re-apply nor the flag.
C23_OnlyModifiedCounts ==
    [][ Drains =>
          /\ NoModifiedDrained =>
                /\ ~GameReapplies /\ tick'.reapply = 0
                /\ tick'.real = << >> /\ tick'.swallowed = << >>
                /\ commands' = commands
                /\ Cameras(entities') = Cameras(entities)
                /\ resources' = resources
                /\ game_asset' = game_asset
                /\ asset_events' = asset_events
                /\ skip_next_asset_update_event' = skip_next_asset_update_event
          /\ Len(tick'.real) + Len(tick'.swallowed)
                 = Cardinality({i \in DOMAIN events : events[i].kind = "Modified"})
          /\ \A k \in {"Created", "Removed"}, i \in 1..(Len(events) + 1) :
                LET with == should_skip_run(TRUE, WithExtra(events, i, k),
                                            skip_next_asset_update_event)
                    without == should_skip_run(TRUE, events,
                                               skip_next_asset_update_event)
                IN  with.ret = without.ret /\ with.skip = without.skip
      ]_vars

\* hot_reload_game drained the Created notification of the Game definition
\* and nothing else, and did not re-apply
C23_Witness ==
    /\ phase = "ApplyLast"
    /\ tick.drained = << "Created" >>
    /\ tick.reapply = 0
    /\ commands = << >>
    /\ Cameras(entities) = {}
    /\ resources.GameMeta = None
    /\ ~skip_next_asset_update_event

====
